---- MODULE Spec2Model ----
(***************************************************************************)
(* Ownership and lifecycle model of the ctypes bridge to Triangle:         *)
(*   xara_mesh/schewchuk/trio.py         (TriangleIO)                      *)
(*   xara_mesh/schewchuk/core.py         (CyTriangle)                      *)
(*   xara_mesh/schewchuk/_triangle_ct.py (TriangulateIO, prototypes)       *)
(*                                                                         *)
(* One CyTriangle session is modelled: its three TriangleIO records        *)
(* (_in, _out, _vor), the native heap addresses handed out by the native   *)
(* routine, and the log of addresses passed to _trifree.                   *)
(***************************************************************************)
EXTENDS Integers, Sequences, FiniteSets, TLC

(* ------------------------------ bounds --------------------------------- *)
MaxBufs == 1        \* successful setter calls after construction (Managed Buffers created)
MaxCalls == 3       \* calls of _run, and direct calls of collect_after_call and __del__
MaxRows == 1        \* largest row count of an array handed to a setter

(* --------------------------- record layout ----------------------------- *)
Records == {"in", "out", "vor"}

\* the pointer-typed fields, in the order collect_after_call walks them
Names ==
    << "pointlist", "pointattributelist", "pointmarkerlist",
       "trianglelist", "triangleattributelist", "trianglearealist",
       "neighborlist", "segmentlist", "segmentmarkerlist",
       "holelist", "regionlist", "edgelist", "edgemarkerlist",
       "normlist" >>

Range(s) == { s[i] : i \in 1..Len(s) }

PtrFields == Range(Names)

CountFields ==
    { "numberofpoints", "numberofpointattributes", "numberoftriangles",
      "numberofcorners", "numberoftriangleattributes", "numberofsegments",
      "numberofholes", "numberofregions", "numberofedges" }

\* addresses: <<"py", k>> is the data address of the k-th numpy buffer,
\* <<"c", k>> the k-th block malloc'ed by Triangle, NULL the null pointer
NULL == <<"null", 0>>
PyAddr(k) == <<"py", k>>
CAddr(k) == <<"c", k>>
IsManaged(a) == a[1] = "py"
IsNative(a) == a[1] = "c"

\* TriangulateIO(): every pointer NULL, every count 0
TriangulateIO == [f \in PtrFields \cup CountFields |-> IF f \in PtrFields THEN NULL ELSE 0]

(* ------------------------------- state --------------------------------- *)
VARIABLES
    io,          \* io[r][f]      : the ctypes struct r._io
    py_buffers,  \* py_buffers[r] : r._py_buffers, as the data addresses of the arrays
    c_to_free,   \* c_to_free[r]  : r._c_to_free; each entry is the pointer object
                 \*                 returned by getattr(io, name), i.e. a view of field name
    freed,       \* the addresses passed to _trifree, in call order
    nextPy,      \* number of numpy buffers handed to _keep so far
    nextC,       \* number of blocks allocated by the native routine so far
    nruns,       \* calls of _run so far
    okRuns,      \* calls of _run whose native status was 0
    ncollects,   \* direct calls of collect_after_call so far
    ndels,       \* ndels[r] : explicit calls of r.__del__() so far
    dead,        \* the session and its three records were finalized (lifetime ended)
    regd,        \* regd[r]  : addresses registered in r's ledger by successful _run calls
    last,        \* how the last call ended: the exception raised (and by which
                 \* operation), or the value returned
    input_dict,  \* the dict CyTriangle was constructed from: key -> shape of its array
    arrays,      \* arrays[k] : the shape of the k-th numpy buffer, whose data is at PyAddr(k)
    opts,        \* the option string the last _run passed to the native routine
    result       \* the dict the last to_dict returned: key -> the value under it

vars == << io, py_buffers, c_to_free, freed, nextPy, nextC, nruns, okRuns,
           ncollects, ndels, dead, regd, last, input_dict, arrays, opts, result >>

\* a call that returned ret ("None" for the operations that return nothing)
Returned(ret) == [exc |-> "none", op |-> "", code |-> 0, ret |-> ret]
\* a call of op that raised exc; code is the number the message carries
Raised(op, exc, code) == [exc |-> exc, op |-> op, code |-> code, ret |-> "nothing"]

\* CyTriangle() without input_dict (None), and a dict with no entries
NoDict == [k \in {} |-> << >>]

\* state after CyTriangle(): three TriangleIO() records
Init ==
    /\ io = [r \in Records |-> TriangulateIO]
    /\ py_buffers = [r \in Records |-> << >>]
    /\ c_to_free = [r \in Records |-> << >>]
    /\ freed = << >>
    /\ nextPy = 0
    /\ nextC = 0
    /\ nruns = 0
    /\ okRuns = 0
    /\ ncollects = 0
    /\ ndels = [r \in Records |-> 0]
    /\ dead = FALSE
    /\ regd = [r \in Records |-> {}]
    /\ last = Returned("None")
    /\ input_dict = NoDict
    /\ arrays = << >>
    /\ opts = << >>
    /\ result = NoDict

(* ---------------------------- setter inputs ---------------------------- *)
IsPrefix(s, t) == Len(s) <= Len(t) /\ \A i \in 1..Len(s) : s[i] = t[i]

\* an array handed to a setter, after np.ascontiguousarray: its shape (at
\* least one dimension) and the address of its data
Cols == {2, 3}
Shapes == { << n >> : n \in 0..MaxRows } \cup { << n, m >> : n \in 0..MaxRows, m \in Cols }
\* the arrays drawn in the lifecycle specification: n rows of k columns, or a
\* flat array of n entries
Table(n, k) == << n, k >>
Flat(n) == << n >>
ndim(sh) == Len(sh)
size(sh) == IF Len(sh) = 1 THEN sh[1] ELSE sh[1] * sh[2]

\* a setter that assigns no count field
NoCounts == [g \in {} |-> 0]

\* (mutation) the array is not retained
keep_nothing(bufs, a) == bufs

\* _keep: append the array to _py_buffers; the pointer returned is its data address
keep(bufs, a) == Append(bufs, a)

(* ------------------ the constructor: TriangleIO(d) --------------------- *)
\* One TriangleIO while its constructor runs: the struct, _py_buffers, the
\* shapes of the buffers made so far, and the exception that ended it, if any.
\* The record being new, its k-th buffer is the k-th buffer of the session.
NewRecord ==
    [io |-> TriangulateIO, bufs |-> << >>, arrays |-> << >>, exc |-> "none", op |-> ""]

\* the setter op raised exc before it stored anything
raised(st, op, exc) == [st EXCEPT !.exc = exc, !.op = op]

\* the counts in cnts, then pointer field f := self._keep(arr)
stored(st, cnts, f, sh) ==
    LET a == PyAddr(Len(st.arrays) + 1) IN
    [st EXCEPT !.io = [g \in DOMAIN @ |->
                          IF g = f THEN a
                          ELSE IF g \in DOMAIN cnts THEN cnts[g] ELSE @[g]],
               !.bufs = keep(@, a),
               !.arrays = Append(@, sh)]

\* the setters as functions of the record, as _from_dict applies them in turn
new_vertices(st, sh) ==
    IF ndim(sh) # 2 \/ sh[2] # 2
    THEN raised(st, "set_vertices", "ValueError")
    ELSE stored(st, "numberofpoints" :> sh[1], "pointlist", sh)

\* (mutation) the row count is not compared with numberofpoints
new_vertex_attributes_unchecked(st, sh) ==
    IF ndim(sh) < 2
    THEN raised(st, "set_vertex_attributes", "IndexError")
    ELSE stored(st, "numberofpointattributes" :> sh[2], "pointattributelist", sh)

new_vertex_attributes(st, sh) ==
    IF sh[1] # st.io["numberofpoints"]
    THEN raised(st, "set_vertex_attributes", "ValueError")
    ELSE IF ndim(sh) < 2
    THEN raised(st, "set_vertex_attributes", "IndexError")
    ELSE stored(st, "numberofpointattributes" :> sh[2], "pointattributelist", sh)

new_vertex_markers(st, sh) ==
    IF size(sh) # st.io["numberofpoints"]
    THEN raised(st, "set_vertex_markers", "ValueError")
    ELSE stored(st, NoCounts, "pointmarkerlist", sh)

new_triangles(st, sh) ==
    IF ndim(sh) < 2
    THEN raised([st EXCEPT !.io["numberoftriangles"] = sh[1]],
                "set_triangles", "IndexError")
    ELSE stored(st, ("numberoftriangles" :> sh[1]) @@ ("numberofcorners" :> sh[2]),
                "trianglelist", sh)

new_triangle_attributes(st, sh) ==
    IF sh[1] # st.io["numberoftriangles"]
    THEN raised(st, "set_triangle_attributes", "ValueError")
    ELSE IF ndim(sh) < 2
    THEN raised(st, "set_triangle_attributes", "IndexError")
    ELSE stored(st, "numberoftriangleattributes" :> sh[2], "triangleattributelist", sh)

new_triangle_areas(st, sh) ==
    IF size(sh) # st.io["numberoftriangles"]
    THEN raised(st, "set_triangle_areas", "ValueError")
    ELSE stored(st, NoCounts, "trianglearealist", sh)

new_segments(st, sh) ==
    IF ndim(sh) < 2
    THEN raised(st, "set_segments", "IndexError")
    ELSE IF sh[2] # 2
    THEN raised(st, "set_segments", "ValueError")
    ELSE stored(st, "numberofsegments" :> sh[1], "segmentlist", sh)

new_segment_markers(st, sh) ==
    IF size(sh) # st.io["numberofsegments"]
    THEN raised(st, "set_segment_markers", "ValueError")
    ELSE stored(st, NoCounts, "segmentmarkerlist", sh)

\* (mutation) set_holes writes the region count
new_holes_as_regions(st, sh) ==
    IF ndim(sh) < 2
    THEN raised(st, "set_holes", "IndexError")
    ELSE IF sh[2] # 2
    THEN raised(st, "set_holes", "ValueError")
    ELSE stored(st, "numberofregions" :> sh[1], "holelist", sh)

new_holes(st, sh) ==
    IF ndim(sh) < 2
    THEN raised(st, "set_holes", "IndexError")
    ELSE IF sh[2] # 2
    THEN raised(st, "set_holes", "ValueError")
    ELSE stored(st, "numberofholes" :> sh[1], "holelist", sh)

\* the value under "regions" is given as the array it is flattened into: one
\* row of 4 columns for each region dict that has vertex, marker and max_area
new_regions(st, sh) ==
    IF sh[1] > 0 /\ (ndim(sh) < 2 \/ sh[2] # 4)
    THEN raised(st, "set_regions", "KeyError")
    ELSE stored(st, "numberofregions" :> sh[1], "regionlist", Table(sh[1], 4))

\* the keys _from_dict looks for, and a key it does not look for
Keys ==
    { "vertices", "vertex_attributes", "vertex_markers", "triangles",
      "triangle_attributes", "triangle_max_area", "segments", "segment_markers",
      "holes", "regions" }
OtherKeys == { "edges" }

\* "k in d"
Has(d, k) == k \in DOMAIN d

\* self.set_<k>(d[k]) for the key k
set_key(st, k, sh) ==
    CASE k = "vertices" -> new_vertices(st, sh)
      [] k = "vertex_attributes" -> new_vertex_attributes(st, sh)
      [] k = "vertex_markers" -> new_vertex_markers(st, sh)
      [] k = "triangles" -> new_triangles(st, sh)
      [] k = "triangle_attributes" -> new_triangle_attributes(st, sh)
      [] k = "triangle_max_area" -> new_triangle_areas(st, sh)
      [] k = "segments" -> new_segments(st, sh)
      [] k = "segment_markers" -> new_segment_markers(st, sh)
      [] k = "holes" -> new_holes(st, sh)
      [] k = "regions" -> new_regions(st, sh)

\* "if k in d: self.set_<k>(d[k])", inside the block "if outer in d:"; an
\* exception raised earlier has ended _from_dict
if_in(st, d, outer, k) ==
    IF st.exc = "none" /\ Has(d, outer) /\ Has(d, k) THEN set_key(st, k, d[k]) ELSE st

\* _from_dict: the setters of the keys present, in the order of the code; the
\* first exception ends it
from_dict(d, st) ==
    if_in(if_in(if_in(if_in(if_in(if_in(if_in(if_in(if_in(if_in(st,
        d, "vertices", "vertices"),
        d, "vertex_attributes", "vertex_attributes"),
        d, "vertex_markers", "vertex_markers"),
        d, "triangles", "triangles"),
        d, "triangles", "triangle_attributes"),
        d, "triangles", "triangle_max_area"),
        d, "segments", "segments"),
        d, "segments", "segment_markers"),
        d, "holes", "holes"),
        d, "regions", "regions")

\* TriangleIO(d): "if d: self._from_dict(d)"; a dict with no entries is false
TriangleIO(d) == IF DOMAIN d # {} THEN from_dict(d, NewRecord) ELSE NewRecord

\* CyTriangle(d): _in = TriangleIO(d), _out and _vor are new records.  An
\* exception in TriangleIO(d) leaves no session: the half-built record is
\* dropped at once, its ledger still empty, and nothing can be called.
CyTriangle(d) ==
    LET rec == TriangleIO(d) IN
    /\ input_dict = d
    /\ io = [r \in Records |-> IF r = "in" THEN rec.io ELSE TriangulateIO]
    /\ py_buffers = [r \in Records |-> IF r = "in" THEN rec.bufs ELSE << >>]
    /\ c_to_free = [r \in Records |-> << >>]
    /\ freed = << >>
    /\ nextPy = Len(rec.arrays)
    /\ arrays = rec.arrays
    /\ nextC = 0
    /\ nruns = 0
    /\ okRuns = 0
    /\ ncollects = 0
    /\ ndels = [r \in Records |-> 0]
    /\ dead = (rec.exc # "none")
    /\ regd = [r \in Records |-> {}]
    /\ last = IF rec.exc = "none" THEN Returned("None") ELSE Raised(rec.op, rec.exc, 0)
    /\ opts = << >>
    /\ result = NoDict

\* the number of buffers the constructor made
Built == Len(TriangleIO(input_dict).arrays)

(* ----------------------- the setters, called directly ------------------ *)
\* an operation that raised exc before it stored anything
Raise(op, r, exc) ==
    /\ last' = Raised(op, exc, 0)
    /\ UNCHANGED << io, py_buffers, c_to_free, freed, nextPy, nextC, nruns,
                    okRuns, ncollects, ndels, dead, regd, input_dict, arrays,
                    opts, result >>

\* the two assignments that end a successful setter: the counts in cnts, then
\* pointer field f := self._keep(arr), arr being an array of shape sh
Store(r, cnts, f, sh) ==
    LET a == PyAddr(nextPy + 1) IN
    /\ io' = [io EXCEPT ![r] = [g \in DOMAIN @ |->
                 IF g = f THEN a
                 ELSE IF g \in DOMAIN cnts THEN cnts[g] ELSE @[g]]]
    /\ py_buffers' = [py_buffers EXCEPT ![r] = keep(@, a)]
    /\ nextPy' = nextPy + 1
    /\ arrays' = Append(arrays, sh)
    /\ last' = Returned("None")
    /\ UNCHANGED << c_to_free, freed, nextC, nruns, okRuns, ncollects, ndels,
                    dead, regd, input_dict, opts, result >>

CanSet(r) == ~dead /\ nextPy < Built + MaxBufs

\* (mutation) the point count is assigned before the shape is checked
set_vertices_count_first(r, sh) ==
    /\ CanSet(r)
    /\ IF ndim(sh) # 2 \/ sh[2] # 2
       THEN /\ io' = [io EXCEPT ![r]["numberofpoints"] = sh[1]]
            /\ last' = Raised("set_vertices", "ValueError", 0)
            /\ UNCHANGED << py_buffers, c_to_free, freed, nextPy, nextC, nruns,
                            okRuns, ncollects, ndels, dead, regd, input_dict,
                            arrays, opts, result >>
       ELSE Store(r, "numberofpoints" :> sh[1], "pointlist", sh)

set_vertices(r, sh) ==
    /\ CanSet(r)
    /\ IF ndim(sh) # 2 \/ sh[2] # 2
       THEN Raise("set_vertices", r, "ValueError")
       ELSE Store(r, "numberofpoints" :> sh[1], "pointlist", sh)

set_vertex_attributes(r, sh) ==
    /\ CanSet(r)
    /\ IF sh[1] # io[r]["numberofpoints"]
       THEN Raise("set_vertex_attributes", r, "ValueError")
       ELSE IF ndim(sh) < 2
       THEN Raise("set_vertex_attributes", r, "IndexError")   \* attr.shape[1]
       ELSE Store(r,
                  "numberofpointattributes" :> sh[2], "pointattributelist", sh)

set_vertex_markers(r, sh) ==
    /\ CanSet(r)
    /\ IF size(sh) # io[r]["numberofpoints"]
       THEN Raise("set_vertex_markers", r, "ValueError")
       ELSE Store(r, NoCounts, "pointmarkerlist", sh)

set_triangles(r, sh) ==
    /\ CanSet(r)
    /\ IF ndim(sh) < 2
       THEN \* numberoftriangles is assigned before tris.shape[1] raises
            /\ io' = [io EXCEPT ![r]["numberoftriangles"] = sh[1]]
            /\ last' = Raised("set_triangles", "IndexError", 0)
            /\ UNCHANGED << py_buffers, c_to_free, freed, nextPy, nextC, nruns,
                            okRuns, ncollects, ndels, dead, regd, input_dict,
                            arrays, opts, result >>
       ELSE Store(r,
                  ("numberoftriangles" :> sh[1]) @@ ("numberofcorners" :> sh[2]),
                  "trianglelist", sh)

set_triangle_attributes(r, sh) ==
    /\ CanSet(r)
    /\ IF sh[1] # io[r]["numberoftriangles"]
       THEN Raise("set_triangle_attributes", r, "ValueError")
       ELSE IF ndim(sh) < 2
       THEN Raise("set_triangle_attributes", r, "IndexError")   \* attr.shape[1]
       ELSE Store(r,
                  "numberoftriangleattributes" :> sh[2], "triangleattributelist", sh)

set_triangle_areas(r, sh) ==
    /\ CanSet(r)
    /\ IF size(sh) # io[r]["numberoftriangles"]
       THEN Raise("set_triangle_areas", r, "ValueError")
       ELSE Store(r, NoCounts, "trianglearealist", sh)

set_segments(r, sh) ==
    /\ CanSet(r)
    /\ IF ndim(sh) < 2
       THEN Raise("set_segments", r, "IndexError")              \* seg.shape[1]
       ELSE IF sh[2] # 2
       THEN Raise("set_segments", r, "ValueError")
       ELSE Store(r, "numberofsegments" :> sh[1], "segmentlist", sh)

set_segment_markers(r, sh) ==
    /\ CanSet(r)
    /\ IF size(sh) # io[r]["numberofsegments"]
       THEN Raise("set_segment_markers", r, "ValueError")
       ELSE Store(r, NoCounts, "segmentmarkerlist", sh)

set_holes(r, sh) ==
    /\ CanSet(r)
    /\ IF ndim(sh) < 2
       THEN Raise("set_holes", r, "IndexError")                 \* holes.shape[1]
       ELSE IF sh[2] # 2
       THEN Raise("set_holes", r, "ValueError")
       ELSE Store(r, "numberofholes" :> sh[1], "holelist", sh)

\* regs is a list of n dicts; wellformed: each has vertex, marker and max_area.
\* They are flattened into an array of n rows and 4 columns.
set_regions(r, n, wellformed) ==
    /\ CanSet(r)
    /\ IF n > 0 /\ ~wellformed
       THEN Raise("set_regions", r, "KeyError")
       ELSE Store(r, "numberofregions" :> n, "regionlist", Table(n, 4))

(* ------------------------ the native entry points ---------------------- *)
\* what one native call does: the status it returns (0 = success) and the
\* arrays it produces in the output and in the Voronoi record; which ones
\* depends on the switches and is opaque here
NativeOutcomes ==
    { [status |-> 0, out |-> {"pointlist", "trianglelist"}, vor |-> {}],
      [status |-> 0,
       out |-> {"pointlist", "pointattributelist", "pointmarkerlist",
                "trianglelist", "triangleattributelist", "neighborlist",
                "segmentlist", "segmentmarkerlist", "edgelist", "edgemarkerlist"},
       vor |-> {"pointlist", "pointattributelist", "edgelist", "normlist"}],
      [status |-> 1, out |-> {"pointlist"}, vor |-> {}],
      [status |-> 2, out |-> {"pointlist"}, vor |-> {}] }

\* Triangle allocates an output array only where the pointer it finds is NULL;
\* a pointer that is already set is written through and left as it is.
\* st.rec is the record, st.n the number of native blocks allocated so far.
RECURSIVE native_fill(_, _, _)
native_fill(i, st, want) ==
    IF i > Len(Names) THEN st
    ELSE IF Names[i] \in want /\ st.rec[Names[i]] = NULL
         THEN native_fill(i + 1,
                  [rec |-> [st.rec EXCEPT ![Names[i]] = CAddr(st.n + 1)],
                   n |-> st.n + 1], want)
         ELSE native_fill(i + 1, st, want)

\* triangulate(opts, &in, &out, &vorout): fills out and vorout; on success
\* out->holelist and out->regionlist are the caller's own pointers, copied
\* from in.  A failing call may already have allocated arrays.
native_triangulate(status, inrec, outrec, vorrec, n, fo, fv) ==
    LET o == native_fill(1, [rec |-> outrec, n |-> n], fo)
        v == native_fill(1, [rec |-> vorrec, n |-> o.n], fv)
        out1 == IF status = 0
                THEN [o.rec EXCEPT !["holelist"] = inrec["holelist"],
                                   !["regionlist"] = inrec["regionlist"],
                                   !["numberofholes"] = inrec["numberofholes"],
                                   !["numberofregions"] = inrec["numberofregions"],
                                   !["numberofpoints"] = inrec["numberofpoints"],
                                   !["numberofcorners"] = 3]
                ELSE o.rec
    IN  [out |-> out1, vor |-> v.rec, n |-> v.n]

\* _trifree(p) for every p of a ledger: the pointer objects are read when the
\* call is made
trifree_all(log, ledger, iorec) ==
    log \o [i \in 1..Len(ledger) |-> iorec[ledger[i]]]

(* --------------------------- resource cleanup -------------------------- *)
\* ptr == buf.ctypes.data compares a ctypes pointer object with a Python int:
\* ctypes pointers define no value comparison, so the test is never true
PtrEqualsData(ptr, data) == FALSE

\* _take_cptr: a non-NULL pointer object is appended.  The object returned by
\* getattr(io, name) shares the struct's memory, so the entry is kept as name.
take_cptr(ledger, name, ptr) ==
    IF ptr # NULL THEN Append(ledger, name) ELSE ledger

\* the loop body of collect_after_call, over Names[i..n]
RECURSIVE collect_from(_, _, _, _, _)
collect_from(i, n, ledger, iorec, bufs) ==
    IF i > n THEN ledger
    ELSE LET ptr == iorec[Names[i]] IN
         collect_from(i + 1, n,
             IF ptr # NULL /\ ~(\E k \in 1..Len(bufs) : PtrEqualsData(ptr, bufs[k]))
             THEN take_cptr(ledger, Names[i], ptr)
             ELSE ledger,
             iorec, bufs)

\* (mutation) the walk stops one name short: normlist is never examined
collect_without_normlist(ledger, iorec, bufs) ==
    collect_from(1, Len(Names) - 1, ledger, iorec, bufs)

collect_after_call(ledger, iorec, bufs) ==
    collect_from(1, Len(Names), ledger, iorec, bufs)

\* the addresses the ledger of r refers to at the moment
LedgerAddrs(r) == { io[r][c_to_free[r][i]] : i \in 1..Len(c_to_free[r]) }

\* the addresses of the entries a collect appended to old, read in record iorec
Appended(old, new, iorec) == { iorec[new[i]] : i \in (Len(old) + 1)..Len(new) }

(* ------------------------------ operations ----------------------------- *)
\* the calls made so far that the model bounds: _run, and collect_after_call
\* and __del__ called by the caller
Calls == nruns + ncollects + ndels["in"] + ndels["out"] + ndels["vor"]

\* (mutation) only a status above 1 counts as a failure
failed_above_one(status) == status > 1

\* if status != 0: raise RuntimeError
failed(status) == status # 0

\* a string is the sequence of its characters; .encode() keeps each of them
NoFlags == << >>

\* opts = (('V' if verbose else 'Q') + 'z' + extra_flags).encode()
option_string(extra_flags, verbose) ==
    << IF verbose THEN "V" ELSE "Q" >> \o << "z" >> \o extra_flags

\* CyTriangle._run(extra_flags, verbose); status, fo and fv are what the native
\* routine does in this call
run(extra_flags, verbose, status, fo, fv) ==
    /\ Calls < MaxCalls
    /\ ~dead
    /\ opts' = option_string(extra_flags, verbose)
    /\ LET nat == native_triangulate(status, io["in"], io["out"], io["vor"], nextC, fo, fv)
           io1 == [io EXCEPT !["out"] = nat.out, !["vor"] = nat.vor]
       IN  /\ io' = io1
           /\ nextC' = nat.n
           /\ nruns' = nruns + 1
           /\ IF failed(status)
              THEN /\ last' = Raised("run", "RuntimeError", status)
                   /\ UNCHANGED << c_to_free, okRuns, regd >>
              ELSE LET lo == collect_after_call(c_to_free["out"], io1["out"], py_buffers["out"])
                       lv == collect_after_call(c_to_free["vor"], io1["vor"], py_buffers["vor"])
                   IN  /\ c_to_free' = [c_to_free EXCEPT !["out"] = lo, !["vor"] = lv]
                       /\ regd' = [regd EXCEPT
                              !["out"] = @ \cup Appended(c_to_free["out"], lo, io1["out"]),
                              !["vor"] = @ \cup Appended(c_to_free["vor"], lv, io1["vor"])]
                       /\ okRuns' = okRuns + 1
                       /\ last' = Returned("out")
    /\ UNCHANGED << py_buffers, freed, nextPy, ncollects, ndels, dead,
                    input_dict, arrays, result >>

\* r.collect_after_call() called directly on a record
collect(r) ==
    /\ Calls < MaxCalls
    /\ ~dead
    /\ c_to_free' = [c_to_free EXCEPT ![r] = collect_after_call(@, io[r], py_buffers[r])]
    /\ ncollects' = ncollects + 1
    /\ last' = Returned("None")
    /\ UNCHANGED << io, py_buffers, freed, nextPy, nextC, nruns, okRuns, ndels,
                    dead, regd, input_dict, arrays, opts, result >>

\* r.__del__() called explicitly; the record stays alive
del(r) ==
    /\ ~dead
    /\ Calls < MaxCalls
    /\ freed' = trifree_all(freed, c_to_free[r], io[r])
    /\ ndels' = [ndels EXCEPT ![r] = @ + 1]
    /\ last' = Returned("None")
    /\ UNCHANGED << io, py_buffers, c_to_free, nextPy, nextC, nruns, okRuns,
                    ncollects, dead, regd, input_dict, arrays, opts, result >>

\* the CyTriangle is dropped: the runtime finalizes _in, _out and _vor, running
\* __del__ once on each
finalize ==
    /\ ~dead
    /\ freed' = trifree_all(trifree_all(trifree_all(freed,
                     c_to_free["in"], io["in"]),
                     c_to_free["out"], io["out"]),
                     c_to_free["vor"], io["vor"])
    /\ dead' = TRUE
    /\ last' = Returned("None")
    /\ UNCHANGED << io, py_buffers, c_to_free, nextPy, nextC, nruns, okRuns,
                    ncollects, ndels, regd, input_dict, arrays, opts, result >>

(* --------------------------- harvesting -------------------------------- *)
\* an ndarray is the address of its data and its shape.  Own stands for memory
\* the array allocated for itself, which belongs to no record; a list has no
\* buffer behind it.
Own == << "own", 0 >>

\* np.ctypeslib.as_array(ptr, shape): an array over the memory at ptr
as_array(ptr, sh) == [data |-> ptr, shape |-> sh]

\* (mutation) the view itself is handed out
no_copy(arr) == arr

\* arr.copy(): a new array holding its own copy of the data
copy(arr) == [data |-> Own, shape |-> arr.shape]

\* arr.tolist(): nested lists of Python numbers
tolist(arr) == [data |-> NULL, shape |-> arr.shape]

\* r.to_dict(np_fmt)
to_dict(r, np_fmt) ==
    /\ ~dead
    /\ LET rec == io[r]
           pts == as_array(rec["pointlist"], << rec["numberofpoints"], 2 >>)
           tris == as_array(rec["trianglelist"],
                            << rec["numberoftriangles"], rec["numberofcorners"] >>)
           v == IF rec["pointlist"] # NULL
                THEN "vertices" :> (IF np_fmt THEN copy(pts) ELSE tolist(pts))
                ELSE NoDict
           t == IF rec["trianglelist"] # NULL
                THEN "triangles" :> (IF np_fmt THEN copy(tris) ELSE tolist(tris))
                ELSE NoDict
       IN  result' = v @@ t
    /\ last' = Returned("dict")
    /\ UNCHANGED << io, py_buffers, c_to_free, freed, nextPy, nextC, nruns,
                    okRuns, ncollects, ndels, dead, regd, input_dict, arrays,
                    opts >>

\* the public entry points of CyTriangle; nat is what the native routine does
triangulate(flags, verbose, nat) == run(flags, verbose, nat.status, nat.out, nat.vor)

delaunay(verbose, nat) == run(NoFlags, verbose, nat.status, nat.out, nat.vor)

convex_hull(verbose, nat) == run(<< "c" >>, verbose, nat.status, nat.out, nat.vor)

voronoi(verbose, nat) == run(<< "v" >>, verbose, nat.status, nat.out, nat.vor)

\* the records the setters are called on: the input record and, as a record
\* that the native routine writes, the output record
SetRecords == {"in", "out"}

\* The lifecycle specification: any interleaving of the operations that decide
\* who owns an address.  Of the setters it takes two whose fields the native
\* routine treats differently: pointlist (allocated when NULL) and holelist
\* (handed back as the caller's own pointer, as regionlist is).
Next ==
    \/ \E r \in SetRecords : set_vertices(r, Table(MaxRows, 2))
    \/ \E r \in SetRecords : set_holes(r, Table(MaxRows, 2))
    \/ \E nat \in NativeOutcomes : delaunay(FALSE, nat)
    \/ \E r \in Records : collect(r)
    \/ \E r \in Records : del(r)
    \/ finalize

Spec == Init /\ [][Next]_vars

\* the record the caller fills before a run: CyTriangle._in
FilledRecords == {"in"}

\* The builder specification: every setter on the input record, with arrays of
\* every shape in Shapes, around successful native calls and the end of the
\* session.

SetOutcomes == { nat \in NativeOutcomes : nat.status = 0 /\ nat.vor = {} }

NextSet ==
    \/ \E r \in FilledRecords, sh \in Shapes : set_vertices(r, sh)
    \/ \E r \in FilledRecords, sh \in Shapes : set_vertex_attributes(r, sh)
    \/ \E r \in FilledRecords, sh \in Shapes : set_vertex_markers(r, sh)
    \/ \E r \in FilledRecords, sh \in Shapes : set_triangles(r, sh)
    \/ \E r \in FilledRecords, sh \in Shapes : set_triangle_attributes(r, sh)
    \/ \E r \in FilledRecords, sh \in Shapes : set_triangle_areas(r, sh)
    \/ \E r \in FilledRecords, sh \in Shapes : set_segments(r, sh)
    \/ \E r \in FilledRecords, sh \in Shapes : set_segment_markers(r, sh)
    \/ \E r \in FilledRecords, sh \in Shapes : set_holes(r, sh)
    \/ \E r \in FilledRecords, n \in 0..MaxRows, w \in BOOLEAN : set_regions(r, n, w)
    \/ \E nat \in SetOutcomes : delaunay(FALSE, nat)
    \/ finalize

SetSpec == Init /\ [][NextSet]_vars

(* ----------------- sessions constructed from a dict -------------------- *)
\* a well-formed array of n rows for key k
ArrayFor(k, n) ==
    CASE k \in { "vertices", "vertex_attributes", "triangle_attributes",
                 "segments", "holes" } -> Table(n, 2)
      [] k = "triangles" -> Table(n, 3)
      [] k = "regions" -> Table(n, 4)
      [] OTHER -> Flat(n)

\* the dicts a session is constructed from: no dict, and every dict of one or
\* two keys with well-formed arrays
Dicts ==
    { NoDict } \cup
    { (k1 :> ArrayFor(k1, n1)) @@ (k2 :> ArrayFor(k2, n2)) :
          k1 \in Keys \cup OtherKeys, k2 \in Keys \cup OtherKeys,
          n1 \in 0..MaxRows, n2 \in 0..MaxRows }

DictInit == \E d \in Dicts : CyTriangle(d)

\* extra flags a caller passes to triangulate
Flags == { NoFlags, << "p" >>, << "V" >> }

\* what the native routine does in the session specification: it succeeds
\* with points and triangles, or fails with status 1
SessionOutcomes == { nat \in NativeOutcomes : nat.vor = {} /\ nat.status \in {0, 1} }

\* The session specification: CyTriangle(d), then calls of triangulate and
\* to_dict, then the end of the session.  The top-level helper
\* triangulate(input_dict, flags) is the behaviour CyTriangle(input_dict),
\* triangulate(flags), to_dict(np_fmt=True) on _out, finalize.
NextDict ==
    \/ \E nat \in SessionOutcomes : triangulate(NoFlags, FALSE, nat)
    \/ \E r \in Records, np_fmt \in BOOLEAN : to_dict(r, np_fmt)
    \/ finalize

DictSpec == DictInit /\ [][NextDict]_vars

\* The dispatcher specification: every entry point with every verbosity.
NextOpts ==
    \/ \E flags \in Flags, verbose \in BOOLEAN, nat \in NativeOutcomes :
           triangulate(flags, verbose, nat)
    \/ \E verbose \in BOOLEAN, nat \in NativeOutcomes : delaunay(verbose, nat)
    \/ \E verbose \in BOOLEAN, nat \in NativeOutcomes : convex_hull(verbose, nat)
    \/ \E verbose \in BOOLEAN, nat \in NativeOutcomes : voronoi(verbose, nat)
    \/ finalize

OptSpec == Init /\ [][NextOpts]_vars

\* The rebuilding specification: a record built by TriangleIO(d), on which
\* set_vertices, set_triangles and set_segments are then called again.
NextReset ==
    \/ \E n \in 0..MaxRows : set_vertices("in", Table(n, 2))
    \/ \E n \in 0..MaxRows : set_triangles("in", Table(n, 3))
    \/ \E n \in 0..MaxRows : set_segments("in", Table(n, 2))

ResetSpec == DictInit /\ [][NextReset]_vars

(* ======================= ownership of addresses ======================== *)
OutputRecords == {"out", "vor"}

\* the state right after _run returned the output record
AfterRun == last = Returned("out")

\* the data addresses of the Managed Buffers of record r
Buffers(r) == Range(py_buffers[r])

\* number of times address a was passed to _trifree
TimesFreed(log, a) == Cardinality({ i \in 1..Len(log) : log[i] = a })

\* C1: after a successful _run, an output or Voronoi field whose address is
\* that of a Managed Buffer of the input record is not in that record's
\* ledger (so it is never handed to _trifree).
C1_AliasNotRegistered ==
    AfterRun =>
        \A r \in OutputRecords : \A f \in PtrFields :
            io[r][f] \in Buffers("in") => io[r][f] \notin LedgerAddrs(r)

\* C2: over any sequence of operations no address is passed to _trifree more
\* than once, and no address passed to _trifree is a Managed Buffer of the
\* input record.
C2_NoDoubleFreeNoManagedFree ==
    /\ \A i \in 1..Len(freed) : freed[i] # NULL => TimesFreed(freed, freed[i]) = 1
    /\ \A i \in 1..Len(freed) : freed[i] \notin Buffers("in")

\* C3: collect_after_call run a second time on a record, with no native call
\* since the first (here: _run has just collected, and the caller calls it
\* again), leaves the ledger as the first call left it.
C3_CollectTwiceKeepsLedger ==
    [][ \A r \in OutputRecords :
            (AfterRun /\ collect(r)) => c_to_free'[r] = c_to_free[r] ]_vars

\* C4: __del__ passes every address of the ledger to _trifree and leaves the
\* ledger empty, so a second release of the record calls _trifree no more.
C4_ReleaseClearsLedger ==
    [][ /\ \A r \in Records :
              del(r) => /\ freed' = trifree_all(freed, c_to_free[r], io[r])
                        /\ c_to_free'[r] = << >>
        /\ finalize => \A r \in Records : c_to_free'[r] = << >> ]_vars

\* C5: after a successful _run, every non-NULL pointer field of the output and
\* of the Voronoi record whose address is not that of a Managed Buffer is in
\* that record's ledger.
C5_NativeRegistered ==
    AfterRun =>
        \A r \in OutputRecords : \A f \in PtrFields :
            (io[r][f] # NULL /\ \A q \in Records : io[r][f] \notin Buffers(q))
                => io[r][f] \in LedgerAddrs(r)

\* a successful call that allocated arrays in both output records
C5_Witness ==
    /\ AfterRun
    /\ \E f \in PtrFields : IsNative(io["out"][f])
    /\ IsNative(io["vor"]["normlist"])

\* C6: when the native routine returns a status other than 0, _run raises an
\* error carrying that status, collects on neither output record (no ledger
\* entry is created) and returns no record.
C6_FailedRunCollectsNothing ==
    [][ \A nat \in NativeOutcomes :
            (nat.status # 0 /\ delaunay(FALSE, nat)) =>
                /\ last' = Raised("run", "RuntimeError", nat.status)
                /\ c_to_free' = c_to_free
                /\ regd' = regd
                /\ okRuns' = okRuns ]_vars

\* a failed call that had already allocated an output array, which no ledger holds
C6_Witness ==
    /\ last.exc = "RuntimeError" /\ last.code = 2
    /\ IsNative(io["out"]["pointlist"])
    /\ c_to_free["out"] = << >>

\* C7: collect_after_call on a record that was never passed to a native call
\* that returned 0, and a second release of a record, fail with an error and
\* neither change a ledger nor call _trifree.
C7_MisuseFailsFast ==
    [][ \A r \in Records :
          /\ (okRuns = 0 /\ collect(r)) =>
                 (last'.exc # "none" /\ c_to_free' = c_to_free)
          /\ (ndels[r] > 0 /\ del(r)) =>
                 (last'.exc # "none" /\ freed' = freed)
          /\ (ndels[r] > 0 /\ finalize) =>
                 \A a \in LedgerAddrs(r) : TimesFreed(freed', a) = TimesFreed(freed, a) ]_vars

\* C8: once the records' lifetime has ended, every address that a successful
\* call registered in the ledger of the output or Voronoi record has been
\* passed to _trifree.
C8_RegisteredFreedAtEnd ==
    dead => \A r \in OutputRecords : \A a \in regd[r] : TimesFreed(freed, a) >= 1

\* C9: no address in a record's ledger is the address of one of the same
\* record's Managed Buffers.
C9_LedgerDisjointFromOwnBuffers ==
    \A r \in Records : LedgerAddrs(r) \cap Buffers(r) = {}

(* ============================ the setters ============================== *)
\* a step in which a setter handed its array to _keep and returned
SetterReturned == nextPy' = nextPy + 1 /\ last'.exc = "none"

\* a pointer field holding a Managed Buffer's address refers to a buffer held
\* by the record itself (or, for the hole and region lists the native routine
\* hands back, by the input record)
HeldBuffers ==
    /\ \A f \in PtrFields : io["in"][f] # NULL => io["in"][f] \in Buffers("in")
    /\ \A r \in OutputRecords : \A f \in PtrFields :
           IsManaged(io[r][f]) =>
               \/ io[r][f] \in Buffers(r)
               \/ f \in {"holelist", "regionlist"} /\ r = "out" /\ io[r][f] \in Buffers("in")

\* C10: every setter that succeeds appends its buffer to _py_buffers and
\* stores the buffer's address in the record; no operation shrinks
\* _py_buffers; so every pointer a setter stored refers to a buffer still held.
C10_SettersKeepBuffers ==
    [][ /\ \A r \in Records : IsPrefix(py_buffers[r], py_buffers'[r])
        /\ SetterReturned =>
              \E r \in Records : \E f \in PtrFields :
                  /\ io'[r][f] = PyAddr(nextPy') /\ io'[r][f] # io[r][f]
                  /\ py_buffers'[r] = Append(py_buffers[r], io'[r][f])
        /\ HeldBuffers' ]_vars

\* a native call that received an input record holding a setter's buffer
C10_Witness ==
    /\ AfterRun
    /\ Len(py_buffers["in"]) = MaxBufs
    /\ io["in"]["pointlist"] \in Buffers("in")

(* ===================== validation in the setters ======================= *)
\* the setters that check their argument before they store anything
CheckedSetters ==
    { "set_vertices", "set_vertex_attributes", "set_vertex_markers",
      "set_triangle_attributes", "set_triangle_areas", "set_segments",
      "set_segment_markers", "set_holes" }

\* a step in which one of the checked setters raised
CheckedSetterRaised == last' # last /\ last'.exc # "none" /\ last'.op \in CheckedSetters

\* C12: a call of set_vertices, set_vertex_attributes, set_vertex_markers,
\* set_triangle_attributes, set_triangle_areas, set_segments,
\* set_segment_markers or set_holes that raises leaves every field of _io, the
\* _py_buffers list and the _c_to_free ledger of every record as they were.
C12_FailedSetterChangesNothing ==
    [][ CheckedSetterRaised =>
            /\ io' = io
            /\ py_buffers' = py_buffers
            /\ c_to_free' = c_to_free ]_vars

\* a checked setter raised on a session whose records a native call has filled
C12_Witness ==
    /\ last.exc = "ValueError" /\ last.op \in CheckedSetters
    /\ okRuns > 0
    /\ IsNative(io["out"]["pointlist"])

\* C13: set_vertex_attributes raises ValueError whenever set_vertices has not
\* stored a point list in the record, whatever the array (zero rows included),
\* and whenever the array's row count differs from numberofpoints.
C13_AttributesNeedPoints ==
    [][ \A sh \in Shapes :
            ( /\ set_vertex_attributes("in", sh)
              /\ \/ io["in"]["pointlist"] = NULL
                 \/ sh[1] # io["in"]["numberofpoints"] )
            => last' = Raised("set_vertex_attributes", "ValueError", 0) ]_vars

\* C14: set_vertices, set_segments and set_holes raise ValueError (the error
\* whose message names the field) for every array that is not two-dimensional
\* with exactly two columns.
C14_ShapeRejected ==
    [][ \A sh \in Shapes :
            (ndim(sh) # 2 \/ sh[2] # 2) =>
                /\ set_vertices("in", sh) => last' = Raised("set_vertices", "ValueError", 0)
                /\ set_segments("in", sh) => last' = Raised("set_segments", "ValueError", 0)
                /\ set_holes("in", sh) => last' = Raised("set_holes", "ValueError", 0) ]_vars

\* the array fields that carry a count of their own
CountedArrays ==
    { << "pointlist", "numberofpoints" >>, << "trianglelist", "numberoftriangles" >>,
      << "segmentlist", "numberofsegments" >>, << "holelist", "numberofholes" >>,
      << "regionlist", "numberofregions" >> }

\* C16: in the record the setters fill, a count above 0 goes with a non-NULL
\* pointer, and a NULL pointer with a count of 0.
C16_CountAgreesWithPointer ==
    \A p \in CountedArrays :
        /\ io["in"][p[2]] > 0 => io["in"][p[1]] # NULL
        /\ io["in"][p[1]] = NULL => io["in"][p[2]] = 0

(* ====================== construction from a dict ======================= *)
\* the dict gives vertex_attributes a row count other than that of vertices
Mismatched(d) ==
    /\ Has(d, "vertices") /\ Has(d, "vertex_attributes")
    /\ d["vertex_attributes"][1] # d["vertices"][1]

\* C11: when the dict's vertex_attributes row count differs from its vertices
\* row count, construction raises ValueError from set_vertex_attributes, the
\* native routine is never called and no ledger of any record gets an entry.
C11_MismatchBuildsNothing ==
    Mismatched(input_dict) =>
        /\ last = Raised("set_vertex_attributes", "ValueError", 0)
        /\ nruns = 0
        /\ \A r \in Records : c_to_free[r] = << >>

\* a dict with vertices and vertex_attributes of different row counts
C11_Witness ==
    /\ Mismatched(input_dict)
    /\ last.exc = "ValueError"
    /\ dead

\* the pointer field and the count fields that the setter of a key assigns
KeyFields ==
    [k \in Keys |->
        CASE k = "vertices" -> << "pointlist", {"numberofpoints"} >>
          [] k = "vertex_attributes" -> << "pointattributelist", {"numberofpointattributes"} >>
          [] k = "vertex_markers" -> << "pointmarkerlist", {} >>
          [] k = "triangles" -> << "trianglelist", {"numberoftriangles", "numberofcorners"} >>
          [] k = "triangle_attributes" -> << "triangleattributelist", {"numberoftriangleattributes"} >>
          [] k = "triangle_max_area" -> << "trianglearealist", {} >>
          [] k = "segments" -> << "segmentlist", {"numberofsegments"} >>
          [] k = "segment_markers" -> << "segmentmarkerlist", {} >>
          [] k = "holes" -> << "holelist", {"numberofholes"} >>
          [] k = "regions" -> << "regionlist", {"numberofregions"} >> ]

\* the constructor raised (nothing can be called afterwards)
ConstructionFailed == dead /\ last.exc # "none"

\* the dict without the keys _from_dict does not look for
Recognized(d) == [k \in DOMAIN d \cap Keys |-> d[k]]

\* C17: after a construction that succeeded, every recognized key absent from
\* the dict has its pointer field NULL and its count fields 0; and the keys
\* outside the recognized set make no difference: the record and its buffers
\* are those of the dict without them, and they raise no error.
C17_AbsentAndUnknownKeys ==
    /\ ~ConstructionFailed =>
           /\ \A k \in Keys \ DOMAIN input_dict :
                  /\ io["in"][KeyFields[k][1]] = NULL
                  /\ \A c \in KeyFields[k][2] : io["in"][c] = 0
           /\ io["in"] = TriangleIO(Recognized(input_dict)).io
           /\ py_buffers["in"] = TriangleIO(Recognized(input_dict)).bufs
    /\ TriangleIO(Recognized(input_dict)).exc = "none" => ~ConstructionFailed

\* a session built from a dict with a recognized and an unrecognized key
C17_Witness ==
    /\ ~dead
    /\ Has(input_dict, "edges") /\ Has(input_dict, "holes")
    /\ io["in"]["holelist"] # NULL
    /\ io["in"]["numberofholes"] > 0

(* ============================ harvesting =============================== *)
\* the address in the records' memory that a returned value refers to
Refers(v) == { v.data } \ { NULL, Own }

\* C18: every value of a dict returned by to_dict is an independent copy: it
\* refers to no address of the records' memory, so to none that has been or
\* will be passed to _trifree; this holds when the session ends after to_dict,
\* as in the top-level triangulate helper.
C18_ResultsAreCopies ==
    \A k \in DOMAIN result :
        /\ Refers(result[k]) = {}
        /\ Refers(result[k]) \cap Range(freed) = {}

\* the helper's path: a successful call, to_dict(np_fmt=True) on the output
\* record, then the end of the session, which frees the triangle list
C18_Witness ==
    /\ dead /\ okRuns = 1
    /\ Has(result, "triangles") /\ ~Has(input_dict, "triangles")
    /\ result["triangles"].data = Own
    /\ io["out"]["trianglelist"] \in Range(freed)

(* ============================ the dispatcher ============================ *)
\* number of occurrences of character ch in string str
Count(str, ch) == Cardinality({ i \in 1..Len(str) : str[i] = ch })

\* a step that is a call of _run
RunStep == nruns' = nruns + 1

\* C15: the option string passed to the native routine is the verbosity switch
\* ('V' if verbose, else 'Q'), then 'z', then the extra flags: none for
\* delaunay, 'c' for convex_hull, 'v' for voronoi, the caller's flags for
\* triangulate; it contains 'z' and exactly one 'V' or 'Q', never both.
C15_OptionString ==
    [][ /\ \A verbose \in BOOLEAN, nat \in NativeOutcomes :
            LET sw == IF verbose THEN "V" ELSE "Q" IN
            /\ delaunay(verbose, nat) => opts' = << sw, "z" >>
            /\ convex_hull(verbose, nat) => opts' = << sw, "z", "c" >>
            /\ voronoi(verbose, nat) => opts' = << sw, "z", "v" >>
            /\ \A flags \in Flags :
                   triangulate(flags, verbose, nat) => opts' = << sw, "z" >> \o flags
        /\ RunStep =>
            /\ Count(opts', "z") >= 1
            /\ Count(opts', "V") + Count(opts', "Q") = 1 ]_vars

(* ========================= dependent arrays ============================ *)
\* the shape of the numpy buffer whose data is at address a
ArrayAt(a) == arrays[a[2]]

\* C19: in the record the setters fill, a non-NULL pointmarkerlist and
\* pointattributelist hold numberofpoints entries / rows, a non-NULL
\* triangleattributelist and trianglearealist hold numberoftriangles rows /
\* entries, and a non-NULL segmentmarkerlist holds numberofsegments entries.
C19_DependentsAgreeWithCounts ==
    LET rec == io["in"] IN
    /\ rec["pointmarkerlist"] # NULL =>
           size(ArrayAt(rec["pointmarkerlist"])) = rec["numberofpoints"]
    /\ rec["pointattributelist"] # NULL =>
           ArrayAt(rec["pointattributelist"])[1] = rec["numberofpoints"]
    /\ rec["triangleattributelist"] # NULL =>
           ArrayAt(rec["triangleattributelist"])[1] = rec["numberoftriangles"]
    /\ rec["trianglearealist"] # NULL =>
           size(ArrayAt(rec["trianglearealist"])) = rec["numberoftriangles"]
    /\ rec["segmentmarkerlist"] # NULL =>
           size(ArrayAt(rec["segmentmarkerlist"])) = rec["numberofsegments"]

====
